---- MODULE Spec2Model ----
(***************************************************************************)
(* Model of hd_fpv_font_tool's set conversion command                      *)
(* (src/bin/hd_fpv_osd_font_tool/convert_set.rs) and of its byte-level     *)
(* file abstraction (src/file.rs).                                         *)
(*                                                                         *)
(* A Rust &str is modelled as a sequence of one-character strings, so that *)
(* strip_prefix, split and split_once are computed character by character. *)
(* An Option<T> is a sequence of length 0 (None) or 1 (Some(x)).           *)
(***************************************************************************)
EXTENDS Naturals, Sequences, FiniteSets

VARIABLES
    \* identify_convert_set_arg called on its own
    gen,          \* how `input` was put together: [head, sep, fields]
    input,        \* the &str handed to identify_convert_set_arg
    id_pc,        \* "call" | "done"
    id_result,    \* the Result it returned
    \* convert_set_command
    from,         \* the `from` &str
    to,           \* the `to` &str
    pc,           \* the position inside convert_set_command
    from_arg,     \* Option<ConvertSetArg>
    to_arg,       \* Option<ConvertSetArg>
    value,        \* the kind of value held between the stages
    calls,        \* the collaborators invoked so far, with their outcome
    result,       \* Option<Result<(), ConvertSetError>>
    \* file abstraction
    handles,      \* the live FileWithPath values: handle id -> [path, mode]
    opened,       \* every FileWithPath value produced: handle id -> path given
    closed,       \* the handle ids consumed by close
    next_id,      \* the id of the next FileWithPath value produced
    last          \* the last operation and what it returned

vars == <<gen, input, id_pc, id_result,
          from, to, pc, from_arg, to_arg, value, calls, result,
          handles, opened, closed, next_id, last>>

id_vars == <<gen, input, id_pc, id_result>>
cmd_vars == <<from, to, pc, from_arg, to_arg, value, calls, result>>
file_vars == <<handles, opened, closed, next_id, last>>

(***************************************************************************)
(* Bounds                                                                  *)
(***************************************************************************)
\* the most colon-separated fields of a generated payload
MaxFields == 5
\* the most fields of a payload handed to convert_set_command
MaxCmdFields == 4
\* the most FileWithPath values a run of the file model produces
MaxHandles == 2

(***************************************************************************)
(* &str primitives                                                         *)
(***************************************************************************)
None == <<>>
Some(x) == <<x>>

COLON == ":"

\* str::starts_with
starts_with(s, p) ==
    /\ Len(p) <= Len(s)
    /\ \A i \in 1..Len(p) : s[i] = p[i]

\* str::strip_prefix: Some(rest) when s starts with p, None otherwise
strip_prefix(s, p) ==
    IF starts_with(s, p) THEN Some(SubSeq(s, Len(p) + 1, Len(s))) ELSE None

\* str::split(':').collect(): always at least one field
RECURSIVE split_from(_, _, _)
split_from(s, i, cur) ==
    IF i > Len(s) THEN <<cur>>
    ELSE IF s[i] = COLON THEN <<cur>> \o split_from(s, i + 1, <<>>)
    ELSE split_from(s, i + 1, Append(cur, s[i]))

\* a split that drops trailing empty fields (and so yields none for "")
RECURSIVE drop_trailing_empty(_)
drop_trailing_empty(fs) ==
    IF Len(fs) = 0 THEN fs
    ELSE IF fs[Len(fs)] = <<>> THEN drop_trailing_empty(SubSeq(fs, 1, Len(fs) - 1))
    ELSE fs

split_dropping_empty(s) == drop_trailing_empty(split_from(s, 1, <<>>))

split(s) == split_from(s, 1, <<>>)

\* a split_once that splits around the last colon (rsplit_once)
split_once_last(s) ==
    IF \E i \in 1..Len(s) : s[i] = COLON
    THEN LET i == CHOOSE k \in 1..Len(s) :
                      /\ s[k] = COLON
                      /\ \A j \in (k + 1)..Len(s) : s[j] # COLON
         IN Some(<<SubSeq(s, 1, i - 1), SubSeq(s, i + 1, Len(s))>>)
    ELSE None

\* str::split_once(':'): Some(<<before, after>>) around the first colon
split_once(s) ==
    IF \E i \in 1..Len(s) : s[i] = COLON
    THEN LET i == CHOOSE k \in 1..Len(s) :
                      /\ s[k] = COLON
                      /\ \A j \in 1..(k - 1) : s[j] # COLON
         IN Some(<<SubSeq(s, 1, i - 1), SubSeq(s, i + 1, Len(s))>>)
    ELSE None

(***************************************************************************)
(* ConvertSetArg                                                           *)
(***************************************************************************)
P_binset == <<"b","i","n","s","e","t">>
P_binsetnorm == <<"b","i","n","s","e","t","n","o","r","m">>
P_tilesetgrids == <<"t","i","l","e","s","e","t","g","r","i","d","s">>
P_tilesetgridsnorm == <<"t","i","l","e","s","e","t","g","r","i","d","s","n","o","r","m">>
P_tilesetdir == <<"t","i","l","e","s","e","t","d","i","r">>
P_symsetdir == <<"s","y","m","s","e","t","d","i","r">>

Kinds == {"BinFileSet", "BinFileSetNorm", "TileSetGrids", "TileSetGridsNorm",
          "TileSetDir", "SymbolSetDir"}

BinFileSet(sd, sd2, hd, hd2) ==
    [kind |-> "BinFileSet", sd_path |-> sd, sd_2_path |-> sd2,
     hd_path |-> hd, hd_2_path |-> hd2]
BinFileSetNorm(dir, ident) ==
    [kind |-> "BinFileSetNorm", dir |-> dir, ident |-> ident]
TileSetGrids(sd, hd) ==
    [kind |-> "TileSetGrids", sd_path |-> sd, hd_path |-> hd]
TileSetGridsNorm(dir, ident) ==
    [kind |-> "TileSetGridsNorm", dir |-> dir, ident |-> ident]
TileSetDir(dir) == [kind |-> "TileSetDir", dir |-> dir]
SymbolSetDir(dir) == [kind |-> "SymbolSetDir", dir |-> dir]

\* ConvertSetArg::prefix
prefix(arg) ==
    CASE arg.kind = "BinFileSet" -> P_binset
      [] arg.kind = "BinFileSetNorm" -> P_binsetnorm
      [] arg.kind = "TileSetGrids" -> P_tilesetgrids
      [] arg.kind = "TileSetGridsNorm" -> P_tilesetgridsnorm
      [] arg.kind = "TileSetDir" -> P_tilesetdir
      [] arg.kind = "SymbolSetDir" -> P_symsetdir

(***************************************************************************)
(* InvalidConvertSetArgError and the Results of the identifier             *)
(***************************************************************************)
Ok(x) == [ok |-> TRUE, val |-> x]
Err(e) == [ok |-> FALSE, err |-> e]

BinSetInvalidArguments(msg) ==
    [variant |-> "BinSetInvalidArguments", msg |-> msg, prefix |-> <<>>]
TileSetGridsInvalidArguments(msg) ==
    [variant |-> "TileSetGridsInvalidArguments", msg |-> msg, prefix |-> <<>>]
\* InvalidConvertArgError(InvalidConvertArgError::InvalidPrefix(prefix))
InvalidPrefix(p) ==
    [variant |-> "InvalidPrefix", msg |-> "", prefix |-> p]
\* InvalidConvertArgError(InvalidConvertArgError::NoPrefix)
NoPrefix == [variant |-> "NoPrefix", msg |-> "", prefix |-> <<>>]

\* argument_norm_args
argument_norm_args(arg) ==
    LET args == split(arg) IN
    IF Len(args) > 2 THEN Err(BinSetInvalidArguments("too many arguments"))
    ELSE IF Len(args) = 0 THEN Err(BinSetInvalidArguments("too few arguments"))
    ELSE Ok([dir |-> args[1],
             ident |-> IF Len(args) >= 2 THEN Some(args[2]) ELSE None])

\* a `binset:` branch that hands sd_2_path and hd_path out in the wrong order
identify_binset_swapped(file_paths) ==
    LET files == split(file_paths) IN
    IF Len(files) < 4 THEN Err(BinSetInvalidArguments("too few arguments"))
    ELSE IF Len(files) > 4 THEN Err(BinSetInvalidArguments("too many arguments"))
    ELSE Ok(BinFileSet(files[1], files[3], files[2], files[4]))

\* identify_convert_set_arg, the `binset:` branch on the stripped payload
identify_binset(file_paths) ==
    LET files == split(file_paths) IN
    IF Len(files) < 4 THEN Err(BinSetInvalidArguments("too few arguments"))
    ELSE IF Len(files) > 4 THEN Err(BinSetInvalidArguments("too many arguments"))
    ELSE Ok(BinFileSet(files[1], files[2], files[3], files[4]))

\* identify_convert_set_arg, the `tilesetgrids:` branch on the stripped payload
identify_tilesetgrids(file_paths) ==
    LET files == split(file_paths) IN
    IF Len(files) < 2 THEN Err(TileSetGridsInvalidArguments("too few arguments"))
    ELSE IF Len(files) > 2 THEN Err(TileSetGridsInvalidArguments("too many arguments"))
    ELSE Ok(TileSetGrids(files[1], files[2]))

\* identify_convert_set_arg: the first prefix (in source order) that strips
identify_convert_set_arg(s) ==
    IF strip_prefix(s, Append(P_binset, COLON)) # None THEN
        identify_binset(strip_prefix(s, Append(P_binset, COLON))[1])
    ELSE IF strip_prefix(s, Append(P_binsetnorm, COLON)) # None THEN
        LET r == argument_norm_args(strip_prefix(s, Append(P_binsetnorm, COLON))[1]) IN
        IF r.ok THEN Ok(BinFileSetNorm(r.val.dir, r.val.ident)) ELSE r
    ELSE IF strip_prefix(s, Append(P_tilesetgrids, COLON)) # None THEN
        identify_tilesetgrids(strip_prefix(s, Append(P_tilesetgrids, COLON))[1])
    ELSE IF strip_prefix(s, Append(P_tilesetgridsnorm, COLON)) # None THEN
        LET r == argument_norm_args(strip_prefix(s, Append(P_tilesetgridsnorm, COLON))[1]) IN
        IF r.ok THEN Ok(TileSetGridsNorm(r.val.dir, r.val.ident)) ELSE r
    ELSE IF strip_prefix(s, Append(P_tilesetdir, COLON)) # None THEN
        Ok(TileSetDir(strip_prefix(s, Append(P_tilesetdir, COLON))[1]))
    ELSE IF strip_prefix(s, Append(P_symsetdir, COLON)) # None THEN
        Ok(SymbolSetDir(strip_prefix(s, Append(P_symsetdir, COLON))[1]))
    ELSE IF split_once(s) # None THEN
        Err(InvalidPrefix(split_once(s)[1][1]))
    ELSE Err(NoPrefix)

(***************************************************************************)
(* The argument strings the model feeds to the identifier: a head, an      *)
(* optional colon, and colon-free fields joined by colons.                 *)
(***************************************************************************)
Prefixes == {P_binset, P_binsetnorm, P_tilesetgrids, P_tilesetgridsnorm,
             P_tilesetdir, P_symsetdir}

Heads == Prefixes \cup {<<>>, <<"f","o","o">>,
                        <<"n","o","p","r","e","f","i","x","h","e","r","e">>}

FieldVals == {<<>>, <<"a">>, <<"/","b">>}

FieldSeqs(n) == UNION {[1..k -> FieldVals] : k \in 1..n}

RECURSIVE Join(_)
Join(fs) ==
    IF Len(fs) = 1 THEN fs[1]
    ELSE fs[1] \o <<COLON>> \o Join(Tail(fs))

Build(g) == g.head \o (IF g.sep THEN <<COLON>> ELSE <<>>) \o Join(g.fields)

\* without the colon after the head the string holds no colon at all
Gens(n) ==
    {g \in [head : Heads, sep : BOOLEAN, fields : FieldSeqs(n)] :
        ~g.sep => Len(g.fields) = 1}

Idle == "idle"

(***************************************************************************)
(* SpecIdentify: identify_convert_set_arg and argument_norm_args, each     *)
(* called once on a generated string.                                      *)
(***************************************************************************)
CmdIdle ==
    /\ from = <<>> /\ to = <<>> /\ pc = Idle
    /\ from_arg = None /\ to_arg = None /\ value = Idle
    /\ calls = <<>> /\ result = None

FileIdle ==
    /\ handles = <<>> /\ opened = <<>> /\ closed = {} /\ next_id = 1
    /\ last = [op |-> Idle]

IdIdle ==
    /\ gen = [head |-> <<>>, sep |-> FALSE, fields |-> <<<<>>>>]
    /\ input = <<>> /\ id_pc = Idle /\ id_result = None

InitIdentify ==
    /\ gen \in Gens(MaxFields)
    /\ input = Build(gen)
    /\ id_pc = "call"
    /\ id_result = None
    /\ CmdIdle
    /\ FileIdle

Identify ==
    /\ id_pc = "call"
    /\ id_result' = Some(identify_convert_set_arg(input))
    /\ id_pc' = "identified"
    /\ UNCHANGED <<gen, input, cmd_vars, file_vars>>

NormArgs ==
    /\ id_pc = "call"
    /\ id_result' = Some(argument_norm_args(input))
    /\ id_pc' = "normed"
    /\ UNCHANGED <<gen, input, cmd_vars, file_vars>>

NextIdentify == Identify \/ NormArgs

SpecIdentify == InitIdentify /\ [][NextIdentify]_vars

(***************************************************************************)
(* ConvertSetError, ConvertOptions and the collaborators of the command    *)
(***************************************************************************)
Unit == "()"

FromArg(e) ==
    [variant |-> "FromArg", error |-> Some(e), from_prefix |-> <<>>, to_prefix |-> <<>>]
ToArg(e) ==
    [variant |-> "ToArg", error |-> Some(e), from_prefix |-> <<>>, to_prefix |-> <<>>]
InvalidConversion(fp, tp) ==
    [variant |-> "InvalidConversion", error |-> None, from_prefix |-> fp, to_prefix |-> tp]

\* options.symbol_specs_file
symbol_specs_file == <<"s","y","m","s",".","y","a","m","l">>

\* the max_tiles literal handed to TileSet::load_from_dir
TileDirMaxTiles == 512
\* the max_tiles literal handed to SymbolSet::load_from_dir
SymbolDirMaxTiles == 512

\* one invocation of a collaborator, before its outcome is known
Call(op, paths, ident, max_tiles) ==
    [op |-> op, paths |-> paths, ident |-> ident, max_tiles |-> max_tiles]

Done(call, ok) ==
    [op |-> call.op, paths |-> call.paths, ident |-> call.ident,
     max_tiles |-> call.max_tiles, ok |-> ok]

\* a dispatch that loads a normalised grid pair through the plain grid loader
\* and reads tile directories up to 256 tiles
loader_call_confused(arg) ==
    CASE arg.kind = "BinFileSet" ->
            Call("bin_file::load_set",
                 <<arg.sd_path, arg.sd_2_path, arg.hd_path, arg.hd_2_path>>, None, None)
      [] arg.kind = "BinFileSetNorm" ->
            Call("bin_file::load_set_norm", <<arg.dir>>, Some(arg.ident), None)
      [] arg.kind = "TileSetGrids" ->
            Call("TileGridSet::load_from_images", <<arg.sd_path, arg.hd_path>>, None, None)
      [] arg.kind = "TileSetGridsNorm" ->
            Call("TileGridSet::load_from_images", <<arg.dir>>, Some(arg.ident), None)
      [] arg.kind = "TileSetDir" ->
            Call("TileSet::load_from_dir", <<arg.dir>>, None, Some(256))
      [] arg.kind = "SymbolSetDir" ->
            Call("SymbolSet::load_from_dir", <<arg.dir>>, None, Some(SymbolDirMaxTiles))

\* convert_set_command: the Loader each `from` kind dispatches to
loader_call(arg) ==
    CASE arg.kind = "BinFileSet" ->
            Call("bin_file::load_set",
                 <<arg.sd_path, arg.sd_2_path, arg.hd_path, arg.hd_2_path>>, None, None)
      [] arg.kind = "BinFileSetNorm" ->
            Call("bin_file::load_set_norm", <<arg.dir>>, Some(arg.ident), None)
      [] arg.kind = "TileSetGrids" ->
            Call("TileGridSet::load_from_images", <<arg.sd_path, arg.hd_path>>, None, None)
      [] arg.kind = "TileSetGridsNorm" ->
            Call("TileGridSet::load_from_images_norm", <<arg.dir>>, Some(arg.ident), None)
      [] arg.kind = "TileSetDir" ->
            Call("TileSet::load_from_dir", <<arg.dir>>, None, Some(TileDirMaxTiles))
      [] arg.kind = "SymbolSetDir" ->
            Call("SymbolSet::load_from_dir", <<arg.dir>>, None, Some(SymbolDirMaxTiles))

\* what each Loader hands back on success
loaded_value(arg) ==
    CASE arg.kind \in {"BinFileSet", "BinFileSetNorm", "TileSetDir"} -> "TileSet"
      [] arg.kind \in {"TileSetGrids", "TileSetGridsNorm"} -> "TileGridSet"
      [] arg.kind = "SymbolSetDir" -> "SymbolSet"

\* convert_tile_set: the Saver each `to` kind dispatches to
saver_call(arg) ==
    CASE arg.kind = "BinFileSet" ->
            Call("TileSet::save_to_bin_files",
                 <<arg.sd_path, arg.sd_2_path, arg.hd_path, arg.hd_2_path>>, None, None)
      [] arg.kind = "BinFileSetNorm" ->
            Call("TileSet::save_to_bin_files_norm", <<arg.dir>>, Some(arg.ident), None)
      [] arg.kind = "TileSetGrids" ->
            Call("TileSet::save_to_grids", <<arg.sd_path, arg.hd_path>>, None, None)
      [] arg.kind = "TileSetGridsNorm" ->
            Call("TileSet::save_to_grids_norm", <<arg.dir>>, Some(arg.ident), None)
      [] arg.kind = "TileSetDir" ->
            Call("TileSet::save_tiles_to_dir", <<arg.dir>>, None, None)
      [] arg.kind = "SymbolSetDir" ->
            Call("SymbolSet::save_to_dir", <<arg.dir>>, None, None)

\* a SymbolSetDir arm of convert_tile_set that also takes TileSetDir
symbol_set_dir_arm_wide(arg) == arg.kind \in {"SymbolSetDir", "TileSetDir"}

\* convert_tile_set: the SymbolSetDir(dir) arm of the match on to_arg
symbol_set_dir_arm(arg) == arg.kind = "SymbolSetDir"

\* a first match arm that leaves the (SymbolSetDir, SymbolSetDir) pair out
same_kind_but_symsetdir(a, b) == a.kind = b.kind /\ a.kind # "SymbolSetDir"

\* convert_set_command: the first match arm, the six same-kind pairs
same_kind(a, b) ==
    \/ a.kind = "BinFileSet" /\ b.kind = "BinFileSet"
    \/ a.kind = "BinFileSetNorm" /\ b.kind = "BinFileSetNorm"
    \/ a.kind = "TileSetGrids" /\ b.kind = "TileSetGrids"
    \/ a.kind = "TileSetGridsNorm" /\ b.kind = "TileSetGridsNorm"
    \/ a.kind = "TileSetDir" /\ b.kind = "TileSetDir"
    \/ a.kind = "SymbolSetDir" /\ b.kind = "SymbolSetDir"

(***************************************************************************)
(* Spec: one run of convert_set_command(from, to, options).  Every call of *)
(* a Loader, Converter, SymbolSpecs load or Saver is one step whose        *)
(* outcome (Ok or Err) is chosen by the environment; an Err reaches the    *)
(* unwrap() behind the call, which panics.                                 *)
(***************************************************************************)
CmdFieldVals == {<<"a">>}

CmdGens ==
    {g \in [head : Heads, sep : BOOLEAN,
            fields : UNION {[1..k -> CmdFieldVals] : k \in 1..MaxCmdFields}] :
        ~g.sep => Len(g.fields) = 1}

CmdInputs == {Build(g) : g \in CmdGens}

Init ==
    /\ from \in CmdInputs
    /\ to \in CmdInputs
    /\ pc = "identify_from"
    /\ from_arg = None
    /\ to_arg = None
    /\ value = "none"
    /\ calls = <<>>
    /\ result = None
    /\ IdIdle
    /\ FileIdle

\* a first line that tags the error of `from` as the error of `to`
IdentifyFromTaggedTo ==
    /\ pc = "identify_from"
    /\ LET r == identify_convert_set_arg(from) IN
       IF r.ok
       THEN /\ from_arg' = Some(r.val)
            /\ pc' = "identify_to"
            /\ UNCHANGED result
       ELSE /\ result' = Some(Err(ToArg(r.err)))
            /\ pc' = "returned"
            /\ UNCHANGED from_arg
    /\ UNCHANGED <<from, to, to_arg, value, calls, id_vars, file_vars>>

\* let from_arg = identify_convert_set_arg(from).map_err(FromArg)?
IdentifyFrom ==
    /\ pc = "identify_from"
    /\ LET r == identify_convert_set_arg(from) IN
       IF r.ok
       THEN /\ from_arg' = Some(r.val)
            /\ pc' = "identify_to"
            /\ UNCHANGED result
       ELSE /\ result' = Some(Err(FromArg(r.err)))
            /\ pc' = "returned"
            /\ UNCHANGED from_arg
    /\ UNCHANGED <<from, to, to_arg, value, calls, id_vars, file_vars>>

\* let to_arg = identify_convert_set_arg(to).map_err(ToArg)?
IdentifyTo ==
    /\ pc = "identify_to"
    /\ LET r == identify_convert_set_arg(to) IN
       IF r.ok
       THEN /\ to_arg' = Some(r.val)
            /\ pc' = "match"
            /\ UNCHANGED result
       ELSE /\ result' = Some(Err(ToArg(r.err)))
            /\ pc' = "returned"
            /\ UNCHANGED to_arg
    /\ UNCHANGED <<from, to, from_arg, value, calls, id_vars, file_vars>>

\* match (&from_arg, &to_arg): the same-kind arm returns InvalidConversion
MatchKinds ==
    /\ pc = "match"
    /\ IF same_kind(from_arg[1], to_arg[1])
       THEN /\ result' = Some(Err(InvalidConversion(prefix(from_arg[1]), prefix(to_arg[1]))))
            /\ pc' = "returned"
       ELSE /\ pc' = "load"
            /\ UNCHANGED result
    /\ UNCHANGED <<from, to, from_arg, to_arg, value, calls, id_vars, file_vars>>

\* the arm of the `from` kind: <Loader>(...).unwrap()
Load ==
    /\ pc = "load"
    /\ \E ok \in BOOLEAN :
        /\ calls' = Append(calls, Done(loader_call(from_arg[1]), ok))
        /\ IF ok
           THEN /\ value' = loaded_value(from_arg[1])
                /\ pc' = "loaded"
           ELSE /\ pc' = "panicked"
                /\ UNCHANGED value
    /\ UNCHANGED <<from, to, from_arg, to_arg, result, id_vars, file_vars>>

\* convert_tile_grid_set: tile_grid_set.into_tile_set()
IntoTileSet ==
    /\ pc = "loaded"
    /\ value = "TileGridSet"
    /\ calls' = Append(calls, Done(Call("TileGridSet::into_tile_set", <<>>, None, None), TRUE))
    /\ value' = "TileSet"
    /\ pc' = "convert_tile_set"
    /\ UNCHANGED <<from, to, from_arg, to_arg, result, id_vars, file_vars>>

\* the SymbolSetDir arm: symbol_set.into()
SymbolSetInto ==
    /\ pc = "loaded"
    /\ value = "SymbolSet"
    /\ calls' = Append(calls, Done(Call("SymbolSet::into", <<>>, None, None), TRUE))
    /\ value' = "TileSet"
    /\ pc' = "convert_tile_set"
    /\ UNCHANGED <<from, to, from_arg, to_arg, result, id_vars, file_vars>>

\* the arms that load a TileSet call convert_tile_set with it
EnterConvertTileSet ==
    /\ pc = "loaded"
    /\ value = "TileSet"
    /\ pc' = "convert_tile_set"
    /\ UNCHANGED <<from, to, from_arg, to_arg, value, calls, result, id_vars, file_vars>>

\* convert_tile_set, SymbolSetDir arm: SymbolSpecs::load_file(...).unwrap()
LoadSymbolSpecs ==
    /\ pc = "convert_tile_set"
    /\ symbol_set_dir_arm(to_arg[1])
    /\ \E ok \in BOOLEAN :
        /\ calls' = Append(calls,
              Done(Call("SymbolSpecs::load_file", <<symbol_specs_file>>, None, None), ok))
        /\ pc' = IF ok THEN "specs_loaded" ELSE "panicked"
    /\ UNCHANGED <<from, to, from_arg, to_arg, value, result, id_vars, file_vars>>

\* convert_tile_set, SymbolSetDir arm: tile_set.into_symbol_set(&sym_specs).unwrap()
IntoSymbolSet ==
    /\ pc = "specs_loaded"
    /\ \E ok \in BOOLEAN :
        /\ calls' = Append(calls,
              Done(Call("TileSet::into_symbol_set", <<>>, None, None), ok))
        /\ IF ok
           THEN /\ value' = "SymbolSet"
                /\ pc' = "save_symbol_set"
           ELSE /\ pc' = "panicked"
                /\ UNCHANGED value
    /\ UNCHANGED <<from, to, from_arg, to_arg, result, id_vars, file_vars>>

\* convert_tile_set: <Saver>(...).unwrap() of the `to` kind
Save ==
    /\ \/ pc = "convert_tile_set" /\ ~symbol_set_dir_arm(to_arg[1])
       \/ pc = "save_symbol_set"
    /\ \E ok \in BOOLEAN :
        /\ calls' = Append(calls, Done(saver_call(to_arg[1]), ok))
        /\ pc' = IF ok THEN "saved" ELSE "panicked"
    /\ UNCHANGED <<from, to, from_arg, to_arg, value, result, id_vars, file_vars>>

\* Ok(())
ReturnOk ==
    /\ pc = "saved"
    /\ result' = Some(Ok(Unit))
    /\ pc' = "returned"
    /\ UNCHANGED <<from, to, from_arg, to_arg, value, calls, id_vars, file_vars>>

Next ==
    \/ IdentifyFrom
    \/ IdentifyTo
    \/ MatchKinds
    \/ Load
    \/ IntoTileSet
    \/ SymbolSetInto
    \/ EnterConvertTileSet
    \/ LoadSymbolSpecs
    \/ IntoSymbolSet
    \/ Save
    \/ ReturnOk

Spec == Init /\ [][Next]_vars

(***************************************************************************)
(* The file abstraction (file.rs): Action, Error, FileWithPath             *)
(***************************************************************************)
Paths == {"/a", "/b"}

\* the std::io::Error an operation of std::fs::File may fail with
IOErrors == {"NotFound", "Other"}

Outcomes == {"ok"} \cup IOErrors

\* Error::new
Error_new(action, path, error) ==
    [action |-> action, path |-> path, error |-> error]

\* map_err of FileWithPath::open
open_err(path, e) == Error_new("Open", path, e)
\* map_err of FileWithPath::create
create_err(path, e) == Error_new("Create", path, e)
\* a seek whose failure is tagged as a read
seek_err_as_read(path, e) == Error_new("Read", path, e)
\* map_err of FileWithPath::seek
seek_err(path, e) == Error_new("Seek", path, e)
\* map_err of FileWithPath::read_exact and FileWithPath::read
read_err(path, e) == Error_new("Read", path, e)
\* map_err of FileWithPath::write_all
write_err(path, e) == Error_new("Write", path, e)
\* map_err of FileWithPath::close
close_err(path, e) == Error_new("Close", path, e)

\* what an operation leaves behind: its name, the path or handle it was
\* called with, and the Result it returned
Returned(op, path, handle, res) ==
    [op |-> op, path |-> path, handle |-> handle, result |-> res]

\* what unwrap() leaves of a failed call: no Result, the thread unwinds
Panic == [ok |-> FALSE, panic |-> TRUE]

Panicked == last.op = "pos" /\ last.result = Panic

Produce(path, mode) ==
    /\ handles' = [h \in DOMAIN handles \cup {next_id} |->
                     IF h = next_id THEN [path |-> path, mode |-> mode] ELSE handles[h]]
    /\ opened' = [h \in DOMAIN opened \cup {next_id} |->
                     IF h = next_id THEN path ELSE opened[h]]
    /\ next_id' = next_id + 1

InitFile ==
    /\ handles = <<>>
    /\ opened = <<>>
    /\ closed = {}
    /\ next_id = 1
    /\ last = [op |-> "start"]
    /\ IdIdle
    /\ CmdIdle

\* FileWithPath::open (and the free function open)
Open ==
    /\ ~Panicked
    /\ next_id <= MaxHandles
    /\ \E path \in Paths, o \in Outcomes :
        IF o = "ok"
        THEN /\ Produce(path, "read")
             /\ last' = Returned("open", Some(path), Some(next_id), Ok(Unit))
        ELSE /\ last' = Returned("open", Some(path), None, Err(open_err(path, o)))
             /\ UNCHANGED <<handles, opened, next_id>>
    /\ UNCHANGED <<closed, id_vars, cmd_vars>>

\* FileWithPath::create (and the free function create)
Create ==
    /\ ~Panicked
    /\ next_id <= MaxHandles
    /\ \E path \in Paths, o \in Outcomes :
        IF o = "ok"
        THEN /\ Produce(path, "write")
             /\ last' = Returned("create", Some(path), Some(next_id), Ok(Unit))
        ELSE /\ last' = Returned("create", Some(path), None, Err(create_err(path, o)))
             /\ UNCHANGED <<handles, opened, next_id>>
    /\ UNCHANGED <<closed, id_vars, cmd_vars>>

\* FileWithPath::seek
Seek ==
    /\ ~Panicked
    /\ \E h \in DOMAIN handles, o \in Outcomes :
        last' = Returned("seek", None, Some(h),
                    IF o = "ok" THEN Ok(Unit) ELSE Err(seek_err(handles[h].path, o)))
    /\ UNCHANGED <<handles, opened, closed, next_id, id_vars, cmd_vars>>

\* FileWithPath::read_exact; a file created for writing cannot be read
ReadExact ==
    /\ ~Panicked
    /\ \E h \in DOMAIN handles, o \in Outcomes :
        /\ handles[h].mode = "write" => o # "ok"
        /\ last' = Returned("read_exact", None, Some(h),
                    IF o = "ok" THEN Ok(Unit) ELSE Err(read_err(handles[h].path, o)))
    /\ UNCHANGED <<handles, opened, closed, next_id, id_vars, cmd_vars>>

\* FileWithPath::read
Read ==
    /\ ~Panicked
    /\ \E h \in DOMAIN handles, o \in Outcomes :
        /\ handles[h].mode = "write" => o # "ok"
        /\ last' = Returned("read", None, Some(h),
                    IF o = "ok" THEN Ok(Unit) ELSE Err(read_err(handles[h].path, o)))
    /\ UNCHANGED <<handles, opened, closed, next_id, id_vars, cmd_vars>>

\* FileWithPath::write_all; a file opened for reading cannot be written
WriteAll ==
    /\ ~Panicked
    /\ \E h \in DOMAIN handles, o \in Outcomes :
        /\ handles[h].mode = "read" => o # "ok"
        /\ last' = Returned("write_all", None, Some(h),
                    IF o = "ok" THEN Ok(Unit) ELSE Err(write_err(handles[h].path, o)))
    /\ UNCHANGED <<handles, opened, closed, next_id, id_vars, cmd_vars>>

\* FileWithPath::pos: seek(SeekFrom::Current(0)).unwrap() panics on failure
Pos ==
    /\ ~Panicked
    /\ \E h \in DOMAIN handles, o \in Outcomes :
        last' = Returned("pos", None, Some(h),
                    IF o = "ok" THEN Ok("position") ELSE Panic)
    /\ UNCHANGED <<handles, opened, closed, next_id, id_vars, cmd_vars>>

\* a close that borrows the handle and leaves it usable
CloseBorrowing ==
    /\ ~Panicked
    /\ \E h \in DOMAIN handles, o \in Outcomes :
        /\ closed' = closed \cup {h}
        /\ last' = Returned("close", None, Some(h),
                    IF o = "ok" THEN Ok(Unit) ELSE Err(close_err(handles[h].path, o)))
    /\ UNCHANGED <<handles, opened, next_id, id_vars, cmd_vars>>

\* FileWithPath::close(self): the value is moved in, whatever the outcome
Close ==
    /\ ~Panicked
    /\ \E h \in DOMAIN handles, o \in Outcomes :
        /\ handles' = [k \in DOMAIN handles \ {h} |-> handles[k]]
        /\ closed' = closed \cup {h}
        /\ last' = Returned("close", None, Some(h),
                    IF o = "ok" THEN Ok(Unit) ELSE Err(close_err(handles[h].path, o)))
    /\ UNCHANGED <<opened, next_id, id_vars, cmd_vars>>

NextFile ==
    \/ Open
    \/ Create
    \/ Seek
    \/ ReadExact
    \/ Read
    \/ WriteAll
    \/ Pos
    \/ Close

SpecFile == InitFile /\ [][NextFile]_vars

(***************************************************************************)
(* Claims about the identifier                                             *)
(***************************************************************************)
\* the field counts the grammar table allows after each prefix
AllowedArity(head) ==
    CASE head = P_binset -> {4}
      [] head = P_binsetnorm -> {1, 2}
      [] head = P_tilesetgrids -> {2}
      [] head = P_tilesetgridsnorm -> {1, 2}
      [] head = P_tilesetdir -> {1}
      [] head = P_symsetdir -> {1}

\* the descriptor the grammar table gives for a prefix and its fields
ExpectedArg(head, fs) ==
    CASE head = P_binset ->
            [kind |-> "BinFileSet", sd_path |-> fs[1], sd_2_path |-> fs[2],
             hd_path |-> fs[3], hd_2_path |-> fs[4]]
      [] head = P_binsetnorm ->
            [kind |-> "BinFileSetNorm", dir |-> fs[1],
             ident |-> IF Len(fs) = 2 THEN <<fs[2]>> ELSE <<>>]
      [] head = P_tilesetgrids ->
            [kind |-> "TileSetGrids", sd_path |-> fs[1], hd_path |-> fs[2]]
      [] head = P_tilesetgridsnorm ->
            [kind |-> "TileSetGridsNorm", dir |-> fs[1],
             ident |-> IF Len(fs) = 2 THEN <<fs[2]>> ELSE <<>>]
      [] head = P_tilesetdir -> [kind |-> "TileSetDir", dir |-> fs[1]]
      [] head = P_symsetdir -> [kind |-> "SymbolSetDir", dir |-> fs[1]]

\* the generated string is a known prefix, a colon and a payload
KnownPrefixed == gen.sep /\ gen.head \in Prefixes

Identified == id_pc = "identified"

\* C2: a known prefix, a colon and a payload of an allowed arity is identified
\* as the descriptor of that prefix's kind, its fields assigned in order and
\* ident present exactly when a second field was given; and whatever is
\* identified is of the kind its prefix names.
C2_ValidIdentified ==
    Identified =>
        /\ (gen.sep /\ gen.head \in Prefixes
              /\ Len(gen.fields) \in AllowedArity(gen.head))
           => id_result = <<[ok |-> TRUE, val |-> ExpectedArg(gen.head, gen.fields)]>>
        /\ id_result[1].ok
           => (gen.sep /\ gen.head = prefix(id_result[1].val))

C2_Witness ==
    /\ Identified
    /\ gen.sep /\ gen.head = P_binset /\ Len(gen.fields) = 4
    /\ gen.fields[2] # gen.fields[3]
    /\ id_result[1].ok
    /\ id_result[1].val.kind = "BinFileSet"
    /\ id_result[1].val.sd_2_path = gen.fields[2]

\* the error family the claim expects for a prefix
ExpectedFamily(head) ==
    CASE head \in {P_binset, P_binsetnorm} -> {"BinSetInvalidArguments"}
      [] head \in {P_tilesetgrids, P_tilesetgridsnorm} -> {"TileSetGridsInvalidArguments"}
      [] OTHER -> {"BinSetInvalidArguments", "TileSetGridsInvalidArguments"}

\* C3: a known prefix with a payload of a field count outside the allowed
\* arity is rejected with "too few arguments" (under) or "too many arguments"
\* (over), in the error variant of the prefix's family.
C3_ArityRejected ==
    (Identified /\ gen.sep /\ gen.head \in Prefixes
       /\ Len(gen.fields) \notin AllowedArity(gen.head))
    => /\ ~id_result[1].ok
       /\ id_result[1].err.variant \in ExpectedFamily(gen.head)
       /\ id_result[1].err.msg =
            (IF \A n \in AllowedArity(gen.head) : Len(gen.fields) < n
             THEN "too few arguments" ELSE "too many arguments")

\* C4: a string that does not start with a known prefix and a colon fails with
\* InvalidPrefix of the text before its first colon, or with NoPrefix when it
\* holds no colon at all.
C4_UnknownPrefix ==
    (Identified /\ ~KnownPrefixed) =>
        IF gen.sep
        THEN id_result = <<[ok |-> FALSE, err |->
                [variant |-> "InvalidPrefix", msg |-> "", prefix |-> gen.head]]>>
        ELSE id_result = <<[ok |-> FALSE, err |->
                [variant |-> "NoPrefix", msg |-> "", prefix |-> <<>>]]>>

C4_Witness ==
    /\ Identified
    /\ gen.head = <<"f","o","o">> /\ gen.sep /\ Len(gen.fields) = 2
    /\ ~id_result[1].ok
    /\ id_result[1].err.variant = "InvalidPrefix"
    /\ id_result[1].err.prefix = <<"f","o","o">>

TooFew(r) == ~r.ok /\ r.err.msg = "too few arguments"

\* C10: argument_norm_args never answers "too few arguments"; an empty payload
\* gives dir = "" and no ident, and a payload ending in a colon gives an ident
\* that is present and empty.
C10_NormNeverTooFew ==
    /\ id_pc = "normed" =>
        /\ ~TooFew(id_result[1])
        /\ input = <<>> =>
             id_result = <<[ok |-> TRUE, val |-> [dir |-> <<>>, ident |-> <<>>]]>>
    /\ (Identified /\ gen.sep /\ gen.head \in {P_binsetnorm, P_tilesetgridsnorm}) =>
        /\ ~TooFew(id_result[1])
        /\ gen.fields = << <<>> >> =>
             /\ id_result[1].ok
             /\ id_result[1].val.dir = <<>>
             /\ id_result[1].val.ident = <<>>
        /\ (Len(gen.fields) = 2 /\ gen.fields[2] = <<>>) =>
             /\ id_result[1].ok
             /\ id_result[1].val.dir = gen.fields[1]
             /\ id_result[1].val.ident = << <<>> >>

C10_Witness ==
    /\ Identified
    /\ gen.sep /\ gen.head = P_binsetnorm
    /\ gen.fields = << <<"/","b">>, <<>> >>
    /\ id_result[1].ok
    /\ id_result[1].val.ident = << <<>> >>

(***************************************************************************)
(* Claims about convert_set_command                                        *)
(***************************************************************************)
BothParsed == from_arg # <<>> /\ to_arg # <<>>
Terminated == pc \in {"returned", "panicked"}

\* the prefix the grammar table gives each kind
PrefixOfKind(k) ==
    CASE k = "BinFileSet" -> <<"b","i","n","s","e","t">>
      [] k = "BinFileSetNorm" -> <<"b","i","n","s","e","t","n","o","r","m">>
      [] k = "TileSetGrids" -> <<"t","i","l","e","s","e","t","g","r","i","d","s">>
      [] k = "TileSetGridsNorm" ->
            <<"t","i","l","e","s","e","t","g","r","i","d","s","n","o","r","m">>
      [] k = "TileSetDir" -> <<"t","i","l","e","s","e","t","d","i","r">>
      [] k = "SymbolSetDir" -> <<"s","y","m","s","e","t","d","i","r">>

\* C1: when `from` and `to` both parse to the same kind K, no collaborator is
\* ever invoked, the run never gets past the match, and it returns
\* InvalidConversion with from_prefix and to_prefix both K's prefix.
C1_SameKindRejected ==
    (BothParsed /\ from_arg[1].kind = to_arg[1].kind) =>
        /\ calls = <<>>
        /\ pc \in {"match", "returned"}
        /\ pc = "returned" =>
             result = <<[ok |-> FALSE, err |->
                 [variant |-> "InvalidConversion", error |-> <<>>,
                  from_prefix |-> PrefixOfKind(from_arg[1].kind),
                  to_prefix |-> PrefixOfKind(from_arg[1].kind)]]>>

C1_Witness ==
    /\ BothParsed
    /\ from_arg[1].kind = "SymbolSetDir" /\ to_arg[1].kind = "SymbolSetDir"
    /\ pc = "returned"
    /\ result[1].err.variant = "InvalidConversion"
    /\ calls = <<>>

\* C5: an invalid `from` ends the run with FromArg(its error) whatever `to`
\* is; a valid `from` with an invalid `to` ends it with ToArg(its error); in
\* both cases the match, the Loaders and the Savers are never reached.
C5_ParseFailureTerminal ==
    LET rf == identify_convert_set_arg(from)
        rt == identify_convert_set_arg(to)
    IN /\ ~rf.ok =>
            /\ pc \in {"identify_from", "returned"}
            /\ calls = <<>>
            /\ pc = "returned" =>
                 /\ ~result[1].ok
                 /\ result[1].err.variant = "FromArg"
                 /\ result[1].err.error = <<rf.err>>
       /\ (rf.ok /\ ~rt.ok) =>
            /\ pc \in {"identify_from", "identify_to", "returned"}
            /\ calls = <<>>
            /\ pc = "returned" =>
                 /\ ~result[1].ok
                 /\ result[1].err.variant = "ToArg"
                 /\ result[1].err.error = <<rt.err>>

C5_Witness ==
    /\ ~identify_convert_set_arg(from).ok
    /\ ~identify_convert_set_arg(to).ok
    /\ pc = "returned"
    /\ result[1].err.variant = "FromArg"

\* the Loader the dispatch matrix names for a `from` descriptor
ExpectedLoader(a) ==
    CASE a.kind = "BinFileSet" ->
            [op |-> "bin_file::load_set",
             paths |-> <<a.sd_path, a.sd_2_path, a.hd_path, a.hd_2_path>>,
             ident |-> <<>>, max_tiles |-> <<>>]
      [] a.kind = "BinFileSetNorm" ->
            [op |-> "bin_file::load_set_norm", paths |-> <<a.dir>>,
             ident |-> <<a.ident>>, max_tiles |-> <<>>]
      [] a.kind = "TileSetGrids" ->
            [op |-> "TileGridSet::load_from_images", paths |-> <<a.sd_path, a.hd_path>>,
             ident |-> <<>>, max_tiles |-> <<>>]
      [] a.kind = "TileSetGridsNorm" ->
            [op |-> "TileGridSet::load_from_images_norm", paths |-> <<a.dir>>,
             ident |-> <<a.ident>>, max_tiles |-> <<>>]
      [] a.kind = "TileSetDir" ->
            [op |-> "TileSet::load_from_dir", paths |-> <<a.dir>>,
             ident |-> <<>>, max_tiles |-> <<512>>]
      [] a.kind = "SymbolSetDir" ->
            [op |-> "SymbolSet::load_from_dir", paths |-> <<a.dir>>,
             ident |-> <<>>, max_tiles |-> <<512>>]

\* the Saver the dispatch matrix names for a `to` descriptor
ExpectedSaver(a) ==
    CASE a.kind = "BinFileSet" ->
            [op |-> "TileSet::save_to_bin_files",
             paths |-> <<a.sd_path, a.sd_2_path, a.hd_path, a.hd_2_path>>,
             ident |-> <<>>, max_tiles |-> <<>>]
      [] a.kind = "BinFileSetNorm" ->
            [op |-> "TileSet::save_to_bin_files_norm", paths |-> <<a.dir>>,
             ident |-> <<a.ident>>, max_tiles |-> <<>>]
      [] a.kind = "TileSetGrids" ->
            [op |-> "TileSet::save_to_grids", paths |-> <<a.sd_path, a.hd_path>>,
             ident |-> <<>>, max_tiles |-> <<>>]
      [] a.kind = "TileSetGridsNorm" ->
            [op |-> "TileSet::save_to_grids_norm", paths |-> <<a.dir>>,
             ident |-> <<a.ident>>, max_tiles |-> <<>>]
      [] a.kind = "TileSetDir" ->
            [op |-> "TileSet::save_tiles_to_dir", paths |-> <<a.dir>>,
             ident |-> <<>>, max_tiles |-> <<>>]
      [] a.kind = "SymbolSetDir" ->
            [op |-> "SymbolSet::save_to_dir", paths |-> <<a.dir>>,
             ident |-> <<>>, max_tiles |-> <<>>]

Pure(op) == [op |-> op, paths |-> <<>>, ident |-> <<>>, max_tiles |-> <<>>]

\* the whole pipeline of a legal pair: Loader, Converters, Saver
ExpectedPipeline(a, b) ==
    <<ExpectedLoader(a)>>
    \o (IF a.kind \in {"TileSetGrids", "TileSetGridsNorm"}
        THEN <<Pure("TileGridSet::into_tile_set")>>
        ELSE IF a.kind = "SymbolSetDir" THEN <<Pure("SymbolSet::into")>>
        ELSE <<>>)
    \o (IF b.kind = "SymbolSetDir"
        THEN <<[op |-> "SymbolSpecs::load_file",
                paths |-> <<<<"s","y","m","s",".","y","a","m","l">>>>,
                ident |-> <<>>, max_tiles |-> <<>>],
               Pure("TileSet::into_symbol_set")>>
        ELSE <<>>)
    \o <<ExpectedSaver(b)>>

Invocation(c) ==
    [op |-> c.op, paths |-> c.paths, ident |-> c.ident, max_tiles |-> c.max_tiles]

Loaders == {"bin_file::load_set", "bin_file::load_set_norm",
            "TileGridSet::load_from_images", "TileGridSet::load_from_images_norm",
            "TileSet::load_from_dir", "SymbolSet::load_from_dir"}

Savers == {"TileSet::save_to_bin_files", "TileSet::save_to_bin_files_norm",
           "TileSet::save_to_grids", "TileSet::save_to_grids_norm",
           "TileSet::save_tiles_to_dir", "SymbolSet::save_to_dir"}

Invoked(ops) == {i \in 1..Len(calls) : calls[i].op \in ops}

\* C6: for a pair of differing kinds the invocations are, in order, the Loader
\* of the `from` kind (directories read with max_tiles = 512), the Converters
\* the pair needs, and the Saver of the `to` kind; each starts only after the
\* one before it succeeded; a finished run invoked exactly one Loader and at
\* most one Saver; and Ok(()) is returned only after the Saver succeeded.
C6_Pipeline ==
    (BothParsed /\ from_arg[1].kind # to_arg[1].kind) =>
        LET full == ExpectedPipeline(from_arg[1], to_arg[1]) IN
        /\ Len(calls) <= Len(full)
        /\ \A i \in 1..Len(calls) : Invocation(calls[i]) = full[i]
        /\ \A i \in 1..(Len(calls) - 1) : calls[i].ok
        /\ Cardinality(Invoked(Loaders)) <= 1
        /\ Cardinality(Invoked(Savers)) <= 1
        /\ \A i \in Invoked(Savers) : value = (IF to_arg[1].kind = "SymbolSetDir"
                                                THEN "SymbolSet" ELSE "TileSet")
        /\ Terminated => Cardinality(Invoked(Loaders)) = 1
        /\ pc = "returned" =>
             /\ result = <<[ok |-> TRUE, val |-> "()"]>>
             /\ Len(calls) = Len(full)
             /\ calls[Len(calls)].ok

C6_Witness ==
    /\ BothParsed
    /\ from_arg[1].kind = "TileSetGridsNorm" /\ to_arg[1].kind = "BinFileSetNorm"
    /\ pc = "returned"
    /\ result = <<[ok |-> TRUE, val |-> "()"]>>
    /\ Len(calls) = 3
    /\ calls[1].op = "TileGridSet::load_from_images_norm"
    /\ calls[2].op = "TileGridSet::into_tile_set"
    /\ calls[3].op = "TileSet::save_to_bin_files_norm"

SpecsRead == Invoked({"SymbolSpecs::load_file"})
ConverterApplied == Invoked({"TileSet::into_symbol_set"})
LoaderSucceeded == \E i \in Invoked(Loaders) : calls[i].ok
ToSymbolSetDir == to_arg # <<>> /\ to_arg[1].kind = "SymbolSetDir"

\* the part of C7 that does not depend on the outcome of the specs load: the
\* file is never read for another destination, and a read comes after the
\* Loader and before the symbol-dir Saver
C7_ReadOnlyForSymbolSetDir ==
    /\ (SpecsRead # {}) => (ToSymbolSetDir /\ LoaderSucceeded)
    /\ (ConverterApplied # {}) => (ToSymbolSetDir /\ LoaderSucceeded)
    /\ \A i \in SpecsRead :
        /\ \A j \in Invoked(Loaders) : j < i
        /\ \A j \in ConverterApplied : i < j
        /\ \A j \in Invoked(Savers) : i < j
    /\ \A i \in ConverterApplied : \A j \in Invoked(Savers) : i < j

\* C7 as stated: in a finished run the symbol specs file is loaded and the
\* TileSet + SymbolSpecs -> SymbolSet converter applied if and only if `to` is
\* SymbolSetDir and the Loader of `from` succeeded.
C7_LoadedAndAppliedIff ==
    /\ C7_ReadOnlyForSymbolSetDir
    /\ Terminated =>
         ((SpecsRead # {} /\ ConverterApplied # {})
            <=> (ToSymbolSetDir /\ LoaderSucceeded))

\* C7 as amended: in a finished run the symbol specs file is read if and only
\* if `to` is SymbolSetDir and the Loader of `from` succeeded, and the
\* converter is applied if and only if, in addition, that read succeeded.
C7_ReadIffAppliedIfLoaded ==
    /\ C7_ReadOnlyForSymbolSetDir
    /\ Terminated =>
         /\ (SpecsRead # {}) <=> (ToSymbolSetDir /\ LoaderSucceeded)
         /\ (ConverterApplied # {})
              <=> (ToSymbolSetDir /\ LoaderSucceeded
                     /\ \E i \in SpecsRead : calls[i].ok)

C7_Witness ==
    /\ ToSymbolSetDir
    /\ pc = "returned"
    /\ Len(calls) = 4
    /\ calls[1].op = "TileSet::load_from_dir" /\ calls[1].ok
    /\ calls[2].op = "SymbolSpecs::load_file" /\ calls[2].ok
    /\ calls[3].op = "TileSet::into_symbol_set" /\ calls[3].ok
    /\ calls[4].op = "SymbolSet::save_to_dir" /\ calls[4].ok

\* C8: a failure of a Loader, of the SymbolSpecs load, of the Converter or of
\* a Saver is returned as the error of convert_set_command: a finished run
\* has returned, with an Err whenever an invocation failed, and never panics.
C8_FailuresReturned ==
    /\ pc # "panicked"
    /\ (pc = "returned" /\ \E i \in 1..Len(calls) : ~calls[i].ok)
         => (result # <<>> /\ ~result[1].ok)

(***************************************************************************)
(* Claims about the file abstraction                                       *)
(***************************************************************************)
\* the Action the claim names for each operation
ActionOfOp(op) ==
    CASE op = "open" -> "Open"
      [] op = "create" -> "Create"
      [] op = "seek" -> "Seek"
      [] op \in {"read_exact", "read"} -> "Read"
      [] op = "write_all" -> "Write"
      [] op = "close" -> "Close"

ResultOps == {"open", "create", "seek", "read_exact", "read", "write_all", "close"}
UseOps == {"seek", "read_exact", "read", "write_all"}

Failed == last.op \in ResultOps /\ ~last.result.ok

\* C9: a failing open, create, seek, read_exact, read, write_all or close
\* returns an Error whose action is that of the operation and whose path is
\* the path the file was opened or created with; a failed open or create
\* produces no FileWithPath; and nothing reads, writes or seeks a handle after
\* its close.
C9_ErrorsTagged ==
    /\ [](Failed =>
            /\ last.result.err.action = ActionOfOp(last.op)
            /\ last.result.err.path =
                 (IF last.op \in {"open", "create"}
                  THEN last.path[1] ELSE opened[last.handle[1]]))
    /\ []((last.op \in {"open", "create"} /\ ~last.result.ok) => last.handle = <<>>)
    /\ [][(last'.op \in {"open", "create"} /\ ~last'.result.ok)
            => (handles' = handles /\ opened' = opened /\ next_id' = next_id)]_vars
    /\ [](closed \cap DOMAIN handles = {})
    /\ [][\A h \in closed : last'.op \in UseOps => last'.handle # <<h>>]_vars

C9_Witness ==
    /\ last.op = "write_all"
    /\ ~last.result.ok
    /\ last.result.err.action = "Write"
    /\ last.result.err.path = "/b"
    /\ last.handle = <<2>>
    /\ closed = {1}
    /\ opened[1] = "/a"

====
